---- MODULE Spec2Model ----
(***************************************************************************)
(* Model of pm_streamlit_app.py: the Procure-to-Pay process-mining page.   *)
(*                                                                         *)
(* One script run per browser session.  A run loads the event table,       *)
(* applies the sidebar filters, reads the object/event mode, the activity  *)
(* selection and the diagram settings, structures the filtered table as an *)
(* object-centric event log, hands it to pm4py through the file            *)
(* temp_ocel.csv, filters and discovers the object-centric directly-       *)
(* follows graph, writes the two diagrams to diag_count.png and            *)
(* diag_time.png and shows them.  The three files live in the process's    *)
(* working directory and are shared by every session.                      *)
(*                                                                         *)
(* pandas, pm4py and streamlit routines are modelled at their call sites   *)
(* by what the called routine does.                                        *)
(***************************************************************************)
EXTENDS Integers, Sequences, FiniteSets, TLC

VARIABLES
    file,                 \* sample-dataset/df_event_sample1.csv: None or Some(raw rows)
    temp_ocel,            \* temp_ocel.csv   (shared file)
    diag_count,           \* diag_count.png  (shared file)
    diag_time,            \* diag_time.png   (shared file)
    pc,                   \* per session: position of the script run
    err,                  \* per session: the error the run reported or raised
    df_raw,               \* per session: load_data()'s result
    widgets,              \* per session: date_range, po_list, inv_list
    df_filtered,          \* per session
    filter_type,          \* per session
    selected_objects,     \* per session
    selected_start_event, \* per session
    acts,                 \* per session: selected_acts, exclude_acts, final_activities
    setting,              \* per session: act_metric, edge_metric, time_op
    df_ocel_prep,         \* per session
    ocel_data,            \* per session: pm4py.read_ocel's result
    ocel,                 \* per session: the filtered OCEL in pm_display
    applied,              \* per session: the pm4py filter calls pm_display made
    ocdfg,                \* per session: pm4py.discover_ocdfg's result
    shown                 \* per session: what the page displayed

shared == <<file, temp_ocel, diag_count, diag_time>>
vars == <<file, temp_ocel, diag_count, diag_time, pc, err, df_raw, widgets,
          df_filtered, filter_type, selected_objects, selected_start_event,
          acts, setting, df_ocel_prep, ocel_data, ocel, applied, ocdfg, shown>>

----------------------------------------------------------------------------
(* Values *)

\* Python's None / an unbound name: the empty option; Some(x) holds x.
None == <<>>
Some(x) == <<x>>
\* A missing cell (NaN) of the canonical table.
NaN == "NaN"

Range(seq) == {seq[i] : i \in DOMAIN seq}

\* All sequences over S of length at most n.
SeqsUpTo(S, n) == UNION {[1..k -> S] : k \in 0..n}

----------------------------------------------------------------------------
(* Fixed vocabularies of the page *)

object_filter == "Object Filter"
start_event_filter == "Start Event"

obj_options == <<"item", "po", "gr", "inv", "wf">>
ObjTypes == Range(obj_options)

\* The activity groups.  Invoicing and Workflow keep their first entries
\* only (the page lists 13 and 25).
pr_acts == <<"PR Cancelled", "PR Purchase Request">>
po_acts == <<"PO From SAP", "PO From WISE">>
gr_acts == <<"GR (PO reversal)", "GR (Return)", "GR Goods Receipt">>
inv_acts == <<"Invoice Created", "Invoice Errors">>
wf_acts == <<"WF Data_Update">>
all_available_acts == pr_acts \o po_acts \o gr_acts \o inv_acts \o wf_acts

group_map(g) ==
    CASE g = "PR" -> pr_acts
      [] g = "PO" -> po_acts
      [] g = "GR" -> gr_acts
      [] g = "Invoicing" -> inv_acts
      [] g = "Workflow" -> wf_acts

year_filter == 2020..2025

----------------------------------------------------------------------------
(* load_data *)

\* date_str = date[0:4].  A date is its day number, day 1 being 2020-01-01;
\* day 0 and earlier fall in 2019.
YearOf(d) == 2019 + ((d + 365) \div 366)

\* pd.to_numeric(errors='coerce').fillna(0).astype(int): a raw po_number is
\* Some(n) when it parses and None when it does not.
CoercePo(raw) == IF raw = None THEN 0 ELSE raw[1]

CleanRow(r) == [r EXCEPT !.po_number = CoercePo(r.po_number)]

load_data(f) ==
    IF f = None
    THEN None
    ELSE LET coerced == [i \in DOMAIN f[1] |-> CleanRow(f[1][i])]
         IN  Some(SelectSeq(coerced, LAMBDA r : YearOf(r.timestamp) \in year_filter))

\* The guard dropped: the script goes on whatever load_data returned.
DfRawGuard_always(df) == TRUE

\* if df_raw is not None
DfRawGuard(df) == df # None

----------------------------------------------------------------------------
(* Sidebar filters on the canonical table *)

PandasBuilds == {"pandas2", "pandas3"}

\* Series.astype(str) on one cell.  A missing cell becomes the text 'nan'
\* before pandas 3 and stays missing from pandas 3 on; the repository pins
\* no version.
astype_str(v, pandas) ==
    IF v = NaN
    THEN IF pandas = "pandas2" THEN Some("nan") ELSE None
    ELSE Some(v)

\* Series.isin(values) on one (optional) text cell.
isin(cell, values) == cell # None /\ cell[1] \in values

DateFilter(df, date_range) ==
    SelectSeq(df, LAMBDA r : r.timestamp >= date_range[1] /\ r.timestamp <= date_range[2])

PoFilter(df, po_list) ==
    IF po_list # {}
    THEN SelectSeq(df, LAMBDA r : ToString(r.po_number) \in po_list)
    ELSE df

po_of_invoice(raw, inv_list, pandas) ==
    {raw[i].po_number : i \in {j \in DOMAIN raw :
                                 isin(astype_str(raw[j].uid_number, pandas), inv_list)}}

InvFilter(df, raw, inv_list, pandas) ==
    IF inv_list # {}
    THEN LET pos == po_of_invoice(raw, inv_list, pandas)
             byPo == SelectSeq(df, LAMBDA r : r.po_number \in pos)
         IN  SelectSeq(byPo, LAMBDA r : r.uid_number = NaN
                                        \/ isin(astype_str(r.uid_number, pandas), inv_list))
    ELSE df

ApplyTableFilters(raw, w, pandas) ==
    InvFilter(PoFilter(DateFilter(raw, w.date_range), w.po_list), raw, w.inv_list, pandas)

----------------------------------------------------------------------------
(* OCEL structuring: df_ocel_prep *)

\* Every row kept: the duplicates are not dropped.
drop_duplicates_none(df) == df

\* DataFrame.drop_duplicates(): keep the first of the rows equal in every
\* column, in order.
RECURSIVE drop_duplicates(_)
drop_duplicates(df) ==
    IF df = <<>> THEN <<>>
    ELSE LET n == Len(df)
             head == drop_duplicates(SubSeq(df, 1, n - 1))
         IN  IF df[n] \in Range(head) THEN head ELSE Append(head, df[n])

\* 'e' + index.astype(str), on the index reset_index(drop=True) left: 0, 1, ...
eid_of(i) == "e" \o ToString(i - 1)

ObjCols(r) ==
    [ty \in ObjTypes |->
        CASE ty = "item" -> r.item_line
          [] ty = "po" -> r.po_line
          [] ty = "gr" -> r.gr_line
          [] ty = "inv" -> r.inv_line
          [] ty = "wf" -> r.wf_line]

\* The renamed table: one event per row, with its id, the OCEL activity and
\* timestamp columns and the five ocel:type:* columns.
ocel_prep(df) ==
    LET d == drop_duplicates(df)
    IN  [i \in DOMAIN d |->
            [eid |-> eid_of(i), activity |-> d[i].activity,
             timestamp |-> d[i].timestamp, types |-> ObjCols(d[i]), row |-> d[i]]]

----------------------------------------------------------------------------
(* pm4py: reading, filtering, discovery *)

EmptyOcel == [events |-> {}, relations |-> {}]

\* pm4py.read_ocel on the csv: the events in row order and one relation per
\* object an event's ocel:type:* cell names.
read_ocel(csv) ==
    [events |-> {[eid |-> csv[i].eid, activity |-> csv[i].activity,
                  timestamp |-> csv[i].timestamp, idx |-> i] : i \in DOMAIN csv},
     relations |-> UNION {UNION {{[eid |-> csv[i].eid, otype |-> ty, oid |-> o]
                                    : o \in csv[i].types[ty]} : ty \in ObjTypes}
                          : i \in DOMAIN csv}]

Eids(evs) == {e.eid : e \in evs}
Objects(o) == {<<r.otype, r.oid>> : r \in o.relations}

\* propagate_event_filtering: relations (and so objects) follow the events.
WithEvents(o, evs) ==
    [events |-> evs, relations |-> {r \in o.relations : r.eid \in Eids(evs)}]

\* pm4py.filter_ocel_object_attribute(o, "ocel:type", types, positive=True):
\* the objects of the types stay, and the events related to one of them.
filter_ocel_object_attribute(o, types) ==
    LET rels == {r \in o.relations : r.otype \in types}
    IN  [events |-> {e \in o.events : \E r \in rels : r.eid = e.eid},
         relations |-> rels]

\* Events are ordered by timestamp, ties by row order.
Before(e1, e2) ==
    \/ e1.timestamp < e2.timestamp
    \/ e1.timestamp = e2.timestamp /\ e1.idx < e2.idx

EventsOf(o, ob) ==
    {e \in o.events : \E r \in o.relations :
        r.eid = e.eid /\ r.otype = ob[1] /\ r.oid = ob[2]}

\* pm4py.filter_ocel_start_events_per_object_type(o, ty): the events that are
\* the first event of an object of type ty.
filter_ocel_start_events_per_object_type(o, ty) ==
    LET obs == {ob \in Objects(o) : ob[1] = ty}
        firsts == {e \in o.events : \E ob \in obs :
                      /\ e \in EventsOf(o, ob)
                      /\ \A f \in EventsOf(o, ob) : f = e \/ Before(e, f)}
    IN  WithEvents(o, firsts)

\* pm4py.filter_ocel_event_attribute(o, "ocel:activity", values, positive=True)
filter_ocel_event_attribute(o, values) ==
    WithEvents(o, {e \in o.events : e.activity \in values})

\* Every ordered pair of the object's events, consecutive or not.
Couples_all_pairs(o, ob) ==
    LET evs == EventsOf(o, ob)
    IN  {c \in evs \X evs : Before(c[1], c[2])}

\* The consecutive event pairs of object ob.
Couples(o, ob) ==
    LET evs == EventsOf(o, ob)
    IN  {c \in evs \X evs :
            /\ Before(c[1], c[2])
            /\ ~ \E m \in evs : Before(c[1], m) /\ Before(m, c[2])}

\* pm4py.discover_ocdfg: per object type, the directly-follows edges with
\* their event couples (each with its time gap) and their objects.
discover_ocdfg(o) ==
    LET keys == UNION {{<<ob[1], c[1].activity, c[2].activity>> : c \in Couples(o, ob)}
                       : ob \in Objects(o)}
        contributors(k) ==
            {ob \in Objects(o) : ob[1] = k[1] /\ \E c \in Couples(o, ob) :
                c[1].activity = k[2] /\ c[2].activity = k[3]}
    IN  [activities |-> {e.activity : e \in o.events},
         edges |-> {[otype |-> k[1], src |-> k[2], tgt |-> k[3],
                     event_couples |->
                        UNION {{[e1 |-> c[1].eid, e2 |-> c[2].eid,
                                 gap |-> c[2].timestamp - c[1].timestamp]
                                  : c \in {d \in Couples(o, ob) :
                                             d[1].activity = k[2] /\ d[2].activity = k[3]}}
                               : ob \in contributors(k)},
                     unique_objects |-> {ob[2] : ob \in contributors(k)}]
                    : k \in keys},
         events |-> o.events,
         relations |-> o.relations]

EmptyOcdfg == discover_ocdfg(EmptyOcel)

----------------------------------------------------------------------------
(* pm4py: the two diagrams *)

RECURSIVE SumGaps(_)
SumGaps(couples) ==
    IF couples = {} THEN 0
    ELSE LET c == CHOOSE d \in couples : TRUE
         IN  c.gap + SumGaps(couples \ {c})

\* performance_aggregation: the label as the fraction num/den.
aggregate(couples, op) ==
    IF op = "mean"
    THEN [num |-> SumGaps(couples), den |-> Cardinality(couples)]
    ELSE [num |-> SumGaps(couples), den |-> 1]

NodeLabel(g, a, act_metric) ==
    LET evs == {e \in g.events : e.activity = a}
    IN  IF act_metric = "events"
        THEN Cardinality(evs)
        ELSE Cardinality({<<r.otype, r.oid>> : r \in {q \in g.relations : q.eid \in Eids(evs)}})

\* save_vis_ocdfg(ocdfg, annotation='frequency', act_metric, edge_metric)
vis_frequency(g, act_metric, edge_metric) ==
    [nodes |-> {[activity |-> a, label |-> NodeLabel(g, a, act_metric)] : a \in g.activities},
     edges |-> {[otype |-> e.otype, src |-> e.src, tgt |-> e.tgt,
                 label |-> IF edge_metric = "unique_objects"
                           THEN Cardinality(e.unique_objects)
                           ELSE Cardinality(e.event_couples)] : e \in g.edges}]

\* save_vis_ocdfg(ocdfg, annotation='performance', performance_aggregation,
\* act_metric='events'): an edge is drawn from its duration samples.
vis_performance(g, performance_aggregation) ==
    [nodes |-> {[activity |-> a, label |-> NodeLabel(g, a, "events")] : a \in g.activities},
     edges |-> {[otype |-> e.otype, src |-> e.src, tgt |-> e.tgt,
                 label |-> aggregate(e.event_couples, performance_aggregation)]
                : e \in {x \in g.edges : x.event_couples # {}}}]

\* The aggregation fixed to the mean, whatever the radio holds.
time_diagram_mean(g, time_op) == vis_performance(g, "mean")

\* The time-lapse diagram the page asks for: time_op is the aggregation.
time_diagram(g, time_op) == vis_performance(g, time_op)

\* df_filtered.head(50)
head50(df) == SubSeq(df, 1, IF Len(df) < 50 THEN Len(df) ELSE 50)

----------------------------------------------------------------------------
(* pm_display: the OCEL filter *)

\* Neither mode's filter is called: the activity filter alone.
pm_filter_no_mode(data, object_or_event_filter, selected_filter, final_activities) ==
    [calls |-> <<"filter_ocel_event_attribute">>,
     ocel |-> filter_ocel_event_attribute(data, final_activities)]

\* The activity filter is given ocel_data, so the mode's filter is lost.
pm_filter_on_input(data, object_or_event_filter, selected_filter, final_activities) ==
    [calls |-> <<IF object_or_event_filter = object_filter
                 THEN "filter_ocel_object_attribute"
                 ELSE "filter_ocel_start_events_per_object_type",
                 "filter_ocel_event_attribute">>,
     ocel |-> filter_ocel_event_attribute(data, final_activities)]

\* Lines 49-54: the object-type filter or the start-event filter, then the
\* activity filter; calls lists the pm4py filters called, in order.
pm_filter(data, object_or_event_filter, selected_filter, final_activities) ==
    LET first == IF object_or_event_filter = object_filter
                 THEN [calls |-> <<"filter_ocel_object_attribute">>,
                       ocel |-> filter_ocel_object_attribute(data, selected_filter)]
                 ELSE [calls |-> <<"filter_ocel_start_events_per_object_type">>,
                       ocel |-> filter_ocel_start_events_per_object_type(data, selected_filter)]
    IN  [calls |-> Append(first.calls, "filter_ocel_event_attribute"),
         ocel |-> filter_ocel_event_attribute(first.ocel, final_activities)]

----------------------------------------------------------------------------
(* Activity selection *)

RECURSIVE extend_groups(_)
\* for g in groups: selected_acts.extend(group_map[g])
extend_groups(groups) ==
    IF groups = <<>> THEN <<>>
    ELSE extend_groups(SubSeq(groups, 1, Len(groups) - 1)) \o group_map(groups[Len(groups)])

\* selected_acts for a radio choice and what was picked under it.
selected_acts_of(act_mode, picked) ==
    CASE act_mode = "All" -> all_available_acts
      [] act_mode = "Main activities" -> extend_groups(picked)
      [] act_mode = "Sub-activities" -> picked

\* The exclusion ignored.
final_activities_all(selected_acts, exclude_acts) == selected_acts

\* [a for a in selected_acts if a not in exclude_acts]
final_activities_of(selected_acts, exclude_acts) ==
    SelectSeq(selected_acts, LAMBDA a : a \notin exclude_acts)

----------------------------------------------------------------------------
(* The script run of session s.  U bounds what the user enters. *)

Sessions == DOMAIN pc

\* The positions of a run, in script order; a run without a table ends at
\* "end", a run that raised stays at "error".
Steps ==
    <<"load", "guard", "sidebar", "mode", "acts", "setting", "build", "write", "read",
      "filter", "discover", "save_count", "save_time", "show_count", "image_count",
      "image_time", "download_count", "download_time", "done">>
Pos(p) == CHOOSE i \in DOMAIN Steps : Steps[i] = p
\* Session s has executed the step at position p.
Past(s, p) == pc[s] \in Range(Steps) /\ Pos(pc[s]) > Pos(p)
\* Session s has just executed the step at position p.
JustPast(s, p) == pc[s] \in Range(Steps) /\ Pos(pc[s]) = Pos(p) + 1

Set(f, s, v) == [f EXCEPT ![s] = v]

\* Line 42: df_raw = load_data(); a missing file is reported with st.error.
LoadData(s) ==
    /\ pc[s] = "load"
    /\ df_raw' = Set(df_raw, s, load_data(file))
    /\ err' = Set(err, s, IF file = None
                          THEN Some("File 'df_event_sample1.csv' not found.")
                          ELSE err[s])
    /\ pc' = Set(pc, s, "guard")
    /\ UNCHANGED <<shared, widgets, df_filtered, filter_type, selected_objects,
                   selected_start_event, acts, setting, df_ocel_prep, ocel_data,
                   ocel, applied, ocdfg, shown>>

\* Line 93: the rest of the script runs only with a table.
Guard(s) ==
    /\ pc[s] = "guard"
    /\ pc' = Set(pc, s, IF DfRawGuard(df_raw[s]) THEN "sidebar" ELSE "end")
    /\ UNCHANGED <<shared, err, df_raw, widgets, df_filtered, filter_type,
                   selected_objects, selected_start_event, acts, setting,
                   df_ocel_prep, ocel_data, ocel, applied, ocdfg, shown>>

Timestamps(df) == {df[i].timestamp : i \in DOMAIN df}
MinOf(S) == CHOOSE x \in S : \A y \in S : x <= y
MaxOf(S) == CHOOSE x \in S : \A y \in S : y <= x

\* The slider's values: any range inside [min_ts, max_ts], or only the
\* default (the whole range).
DateRanges(df, U) ==
    LET lo == MinOf(Timestamps(df))
        hi == MaxOf(Timestamps(df))
    IN  IF U.any_range
        THEN {<<a, b>> : a \in lo..hi, b \in lo..hi} \ {<<a, b>> \in (lo..hi) \X (lo..hi) : a > b}
        ELSE {<<lo, hi>>}

\* Lines 101-131: the sidebar widgets and the filtered table.  Subscripting
\* None raises, and so does a slider over no timestamp at all.
Sidebar(s, U) ==
    /\ pc[s] = "sidebar"
    /\ IF df_raw[s] = None
       THEN /\ err' = Set(err, s, Some("TypeError: 'NoneType' object is not subscriptable"))
            /\ pc' = Set(pc, s, "error")
            /\ UNCHANGED <<widgets, df_filtered>>
       ELSE IF df_raw[s][1] = <<>>
       THEN /\ err' = Set(err, s, Some("slider: no timestamp to range over"))
            /\ pc' = Set(pc, s, "error")
            /\ UNCHANGED <<widgets, df_filtered>>
       ELSE \E date_range \in DateRanges(df_raw[s][1], U), po_list \in U.po_lists,
               inv_list \in U.inv_lists, pandas \in PandasBuilds :
            LET w == [date_range |-> date_range, po_list |-> po_list, inv_list |-> inv_list]
            IN  /\ widgets' = Set(widgets, s, w)
                /\ df_filtered' = Set(df_filtered, s, ApplyTableFilters(df_raw[s][1], w, pandas))
                /\ pc' = Set(pc, s, "mode")
                /\ UNCHANGED err
    /\ UNCHANGED <<shared, df_raw, filter_type, selected_objects, selected_start_event,
                   acts, setting, df_ocel_prep, ocel_data, ocel, applied, ocdfg, shown>>

\* Lines 137-155: the mode radio and the widget of the chosen mode only.
\* st.selectbox takes no 'default' argument: the call raises TypeError.
SelectMode(s, U) ==
    /\ pc[s] = "mode"
    /\ \E ft \in U.modes :
        /\ filter_type' = Set(filter_type, s, ft)
        /\ IF ft = object_filter
           THEN /\ \E so \in U.object_sets : selected_objects' = Set(selected_objects, s, Some(so))
                /\ pc' = Set(pc, s, "acts")
                /\ UNCHANGED err
           ELSE /\ err' = Set(err, s, Some("TypeError: selectbox() got an unexpected keyword argument 'default'"))
                /\ pc' = Set(pc, s, "error")
                /\ UNCHANGED selected_objects
    /\ UNCHANGED <<shared, df_raw, widgets, df_filtered, selected_start_event, acts,
                   setting, df_ocel_prep, ocel_data, ocel, applied, ocdfg, shown>>

\* The exclusion multiselect offers selected_acts.
Exclusions(sel, U) ==
    CASE U.exclude = "any" -> SUBSET Range(sel)
      [] U.exclude = "none_or_all" -> {{}, Range(sel)}
      [] U.exclude = "none" -> {{}}

\* Lines 158-198.
SelectActs(s, U) ==
    /\ pc[s] = "acts"
    /\ \E choice \in U.act_choices :
         LET sel == selected_acts_of(choice.act_mode, choice.picked)
         IN  \E ex \in Exclusions(sel, U) :
                acts' = Set(acts, s, [selected_acts |-> sel, exclude_acts |-> ex,
                                      final_activities |-> final_activities_of(sel, ex)])
    /\ pc' = Set(pc, s, "setting")
    /\ UNCHANGED <<shared, err, df_raw, widgets, df_filtered, filter_type, selected_objects,
                   selected_start_event, setting, df_ocel_prep, ocel_data, ocel,
                   applied, ocdfg, shown>>

\* Lines 201-219: the three radios.
Setting(s, U) ==
    /\ pc[s] = "setting"
    /\ \E am \in U.act_metrics, em \in U.edge_metrics, op \in U.time_ops :
         setting' = Set(setting, s, [act_metric |-> am, edge_metric |-> em, time_op |-> op])
    /\ pc' = Set(pc, s, "build")
    /\ UNCHANGED <<shared, err, df_raw, widgets, df_filtered, filter_type, selected_objects,
                   selected_start_event, acts, df_ocel_prep, ocel_data, ocel,
                   applied, ocdfg, shown>>

\* Lines 222-235.
Build(s) ==
    /\ pc[s] = "build"
    /\ df_ocel_prep' = Set(df_ocel_prep, s, ocel_prep(df_filtered[s]))
    /\ pc' = Set(pc, s, "write")
    /\ UNCHANGED <<shared, err, df_raw, widgets, df_filtered, filter_type, selected_objects,
                   selected_start_event, acts, setting, ocel_data, ocel, applied,
                   ocdfg, shown>>

\* Line 238: df_ocel_prep.to_csv("temp_ocel.csv")
WriteCsv(s) ==
    /\ pc[s] = "write"
    /\ temp_ocel' = Some(df_ocel_prep[s])
    /\ pc' = Set(pc, s, "read")
    /\ UNCHANGED <<file, diag_count, diag_time, err, df_raw, widgets, df_filtered,
                   filter_type, selected_objects, selected_start_event, acts, setting,
                   df_ocel_prep, ocel_data, ocel, applied, ocdfg, shown>>

\* Line 239: ocel_data = pm4py.read_ocel("temp_ocel.csv")
ReadOcel(s) ==
    /\ pc[s] = "read"
    /\ temp_ocel # None
    /\ ocel_data' = Set(ocel_data, s, read_ocel(temp_ocel[1]))
    /\ pc' = Set(pc, s, "filter")
    /\ UNCHANGED <<shared, err, df_raw, widgets, df_filtered, filter_type, selected_objects,
                   selected_start_event, acts, setting, df_ocel_prep, ocel, applied,
                   ocdfg, shown>>

\* Lines 241-246: selected_filter is the selection of the active mode.
selected_filter_of(s) ==
    IF filter_type[s] = object_filter THEN selected_objects[s][1] ELSE selected_start_event[s][1]

\* Lines 49-54 of pm_display.
PmFilter(s) ==
    /\ pc[s] = "filter"
    /\ LET r == pm_filter(ocel_data[s], filter_type[s], selected_filter_of(s),
                          Range(acts[s].final_activities))
       IN  /\ ocel' = Set(ocel, s, r.ocel)
           /\ applied' = Set(applied, s, r.calls)
    /\ pc' = Set(pc, s, "discover")
    /\ UNCHANGED <<shared, err, df_raw, widgets, df_filtered, filter_type, selected_objects,
                   selected_start_event, acts, setting, df_ocel_prep, ocel_data,
                   ocdfg, shown>>

\* Line 57.
Discover(s) ==
    /\ pc[s] = "discover"
    /\ ocdfg' = Set(ocdfg, s, discover_ocdfg(ocel[s]))
    /\ pc' = Set(pc, s, "save_count")
    /\ UNCHANGED <<shared, err, df_raw, widgets, df_filtered, filter_type, selected_objects,
                   selected_start_event, acts, setting, df_ocel_prep, ocel_data, ocel,
                   applied, shown>>

\* Line 60.
SaveCount(s) ==
    /\ pc[s] = "save_count"
    /\ diag_count' = Some(vis_frequency(ocdfg[s], setting[s].act_metric, setting[s].edge_metric))
    /\ pc' = Set(pc, s, "save_time")
    /\ UNCHANGED <<file, temp_ocel, diag_time, err, df_raw, widgets, df_filtered,
                   filter_type, selected_objects, selected_start_event, acts, setting,
                   df_ocel_prep, ocel_data, ocel, applied, ocdfg, shown>>

\* Line 61.
SaveTime(s) ==
    /\ pc[s] = "save_time"
    /\ diag_time' = Some(time_diagram(ocdfg[s], setting[s].time_op))
    /\ pc' = Set(pc, s, "show_count")
    /\ UNCHANGED <<file, temp_ocel, diag_count, err, df_raw, widgets, df_filtered,
                   filter_type, selected_objects, selected_start_event, acts, setting,
                   df_ocel_prep, ocel_data, ocel, applied, ocdfg, shown>>

Show(s, what, value, next) ==
    /\ shown' = Set(shown, s, [shown[s] EXCEPT ![what] = Some(value)])
    /\ pc' = Set(pc, s, next)
    /\ UNCHANGED <<shared, err, df_raw, widgets, df_filtered, filter_type, selected_objects,
                   selected_start_event, acts, setting, df_ocel_prep, ocel_data, ocel,
                   applied, ocdfg>>

\* Lines 63-65: st.dataframe(df_filtered.head(50))
ShowTable(s) ==
    /\ pc[s] = "show_count"
    /\ Show(s, "table", head50(df_filtered[s]), "image_count")

\* Lines 67-68: st.image("diag_count.png")
ShowCount(s) ==
    /\ pc[s] = "image_count"
    /\ diag_count # None
    /\ Show(s, "count", diag_count[1], "image_time")

\* Lines 71-74: st.image("diag_time.png") and the remark naming time_op
ShowTime(s) ==
    /\ pc[s] = "image_time"
    /\ diag_time # None
    /\ Show(s, "time", [diagram |-> diag_time[1], remark |-> setting[s].time_op], "download_count")

\* Lines 78-80: the download button over diag_count.png
DownloadCount(s) ==
    /\ pc[s] = "download_count"
    /\ diag_count # None
    /\ Show(s, "download_count", diag_count[1], "download_time")

\* Lines 81-83: the download button over diag_time.png
DownloadTime(s) ==
    /\ pc[s] = "download_time"
    /\ diag_time # None
    /\ Show(s, "download_time", diag_time[1], "done")

Run(s, U) ==
    \/ LoadData(s)
    \/ Guard(s)
    \/ Sidebar(s, U)
    \/ SelectMode(s, U)
    \/ SelectActs(s, U)
    \/ Setting(s, U)
    \/ Build(s)
    \/ WriteCsv(s)
    \/ ReadOcel(s)
    \/ PmFilter(s)
    \/ Discover(s)
    \/ SaveCount(s)
    \/ SaveTime(s)
    \/ ShowTable(s)
    \/ ShowCount(s)
    \/ ShowTime(s)
    \/ DownloadCount(s)
    \/ DownloadTime(s)

\* The state after construction: no run has started, no file of a run exists.
InitRuns(sessions, files) ==
    /\ file \in files
    /\ temp_ocel = None
    /\ diag_count = None
    /\ diag_time = None
    /\ pc = [s \in sessions |-> "load"]
    /\ err = [s \in sessions |-> None]
    /\ df_raw = [s \in sessions |-> None]
    /\ widgets = [s \in sessions |-> None]
    /\ df_filtered = [s \in sessions |-> <<>>]
    /\ filter_type = [s \in sessions |-> object_filter]
    /\ selected_objects = [s \in sessions |-> None]
    /\ selected_start_event = [s \in sessions |-> None]
    /\ acts = [s \in sessions |-> None]
    /\ setting = [s \in sessions |-> None]
    /\ df_ocel_prep = [s \in sessions |-> <<>>]
    /\ ocel_data = [s \in sessions |-> EmptyOcel]
    /\ ocel = [s \in sessions |-> EmptyOcel]
    /\ applied = [s \in sessions |-> <<>>]
    /\ ocdfg = [s \in sessions |-> EmptyOcdfg]
    /\ shown = [s \in sessions |-> [table |-> None, count |-> None, time |-> None,
                                     download_count |-> None, download_time |-> None]]

----------------------------------------------------------------------------
(* Event tables *)

RawRow(po, uid, act, ts, items, pos) ==
    [po_number |-> po, uid_number |-> uid, activity |-> act, timestamp |-> ts,
     item_line |-> items, po_line |-> pos, gr_line |-> {}, inv_line |-> {}, wf_line |-> {}]

\* The longest generated table.
MaxRows == 3

\* One item through purchase request, order and goods receipt, a day apart,
\* after a row of 2019 whose po_number does not parse.
ScenarioLog ==
    << RawRow(None, NaN, "PR Cancelled", 0, {"i0"}, {}),
       RawRow(Some(1), NaN, "PR Purchase Request", 1, {"i1"}, {}),
       RawRow(Some(1), NaN, "PO From SAP", 2, {"i1"}, {"p1"}),
       RawRow(Some(1), "u1", "GR Goods Receipt", 3, {"i1"}, {"p1"}) >>

\* Three items ordered together and received 10, 20 and 30 days later, the
\* rows out of time order.
GapLog ==
    << RawRow(Some(1), NaN, "GR Goods Receipt", 31, {"i3"}, {}),
       RawRow(Some(1), NaN, "PO From SAP", 1, {"i1", "i2", "i3"}, {}),
       RawRow(Some(1), NaN, "GR Goods Receipt", 21, {"i2"}, {}),
       RawRow(Some(1), NaN, "GR Goods Receipt", 11, {"i1"}, {}) >>

----------------------------------------------------------------------------
(* Spec: two sessions over the scenario log, each choosing its date range *)

PipelineInputs ==
    [any_range |-> TRUE, po_lists |-> {{}}, inv_lists |-> {{}},
     modes |-> {object_filter, start_event_filter},
     object_sets |-> {{"item"}},
     act_choices |-> {[act_mode |-> "Main activities", picked |-> <<"PR", "PO", "GR">>]},
     exclude |-> "none",
     act_metrics |-> {"unique_objects"}, edge_metrics |-> {"unique_objects"},
     time_ops |-> {"mean"}]

Init == InitRuns({1, 2}, {None, Some(ScenarioLog)})
Next == \E s \in {1, 2} : Run(s, PipelineInputs)
Spec == Init /\ [][Next]_vars

----------------------------------------------------------------------------
(* SpecTable: one session, every table of a few rows, up to df_ocel_prep *)

TableRows ==
    {RawRow(Some(po), uid, "PO From SAP", ts, {"i1"}, {}) :
        po \in {1, 2}, uid \in {NaN, "u1"}, ts \in {1, 3}}

TableInputs ==
    [any_range |-> TRUE, po_lists |-> {{}, {"1"}}, inv_lists |-> SUBSET {"u1", "nan"},
     modes |-> {object_filter, start_event_filter},
     object_sets |-> {{"item"}},
     act_choices |-> {[act_mode |-> "All", picked |-> <<>>]},
     exclude |-> "none",
     act_metrics |-> {"unique_objects"}, edge_metrics |-> {"unique_objects"},
     time_ops |-> {"mean"}]

InitTable == InitRuns({1}, {None} \cup {Some(t) : t \in SeqsUpTo(TableRows, MaxRows)})
NextTable ==
    \E s \in {1} :
        \/ LoadData(s)
        \/ Guard(s)
        \/ Sidebar(s, TableInputs)
        \/ SelectMode(s, TableInputs)
        \/ SelectActs(s, TableInputs)
        \/ Setting(s, TableInputs)
        \/ Build(s)
SpecTable == InitTable /\ [][NextTable]_vars

----------------------------------------------------------------------------
(* SpecOcel: one session, every log of a few events in time order, and the *)
(* two named logs, through the whole run                                   *)

OcelCells ==
    {[activity |-> a, items |-> r[1], pos |-> r[2]] :
        a \in {"PO From SAP", "GR Goods Receipt"},
        r \in {<<{"i1"}, {}>>, <<{"i1"}, {"p1"}>>, <<{"i2"}, {"p1"}>>}}

OcelLogs ==
    {[i \in DOMAIN c |-> RawRow(Some(1), NaN, c[i].activity, i, c[i].items, c[i].pos)] :
        c \in SeqsUpTo(OcelCells, MaxRows)}

OcelInputs ==
    [any_range |-> FALSE, po_lists |-> {{}}, inv_lists |-> {{}},
     modes |-> {object_filter, start_event_filter},
     object_sets |-> {{"item"}, {"po"}, {"item", "po"}},
     act_choices |-> {[act_mode |-> "Main activities", picked |-> <<"PO", "GR">>],
                      [act_mode |-> "Sub-activities", picked |-> <<"PO From SAP">>]},
     exclude |-> "none_or_all",
     act_metrics |-> {"events"}, edge_metrics |-> {"unique_objects"},
     time_ops |-> {"mean", "sum"}]

InitOcel == InitRuns({1}, {Some(t) : t \in OcelLogs \cup {ScenarioLog, GapLog}})
NextOcel == \E s \in {1} : Run(s, OcelInputs)
SpecOcel == InitOcel /\ [][NextOcel]_vars

----------------------------------------------------------------------------
(* Claims checked under Spec *)

NothingShown(s) ==
    /\ shown[s].table = None /\ shown[s].count = None /\ shown[s].time = None
    /\ shown[s].download_count = None /\ shown[s].download_time = None

\* C8: when the source file is missing, load_data reports the error and
\* yields no table, and the run ends there: no filter, no OCEL build, no
\* pm4py call, no diagram file and nothing displayed.
C8_MissingFileStopsRun ==
    \A s \in Sessions :
        (df_raw[s] = None /\ pc[s] # "load") =>
            /\ file = None
            /\ err[s] = Some("File 'df_event_sample1.csv' not found.")
            /\ pc[s] \in {"guard", "end"}
            /\ applied[s] = <<>>
            /\ df_ocel_prep[s] = <<>>
            /\ NothingShown(s)

C8_Witness ==
    \E s \in Sessions : file = None /\ pc[s] = "end" /\ df_raw[s] = None

ModeCalls(s) ==
    SelectSeq(applied[s], LAMBDA c : c \in {"filter_ocel_object_attribute",
                                            "filter_ocel_start_events_per_object_type"})

OwnOcelData(s) == read_ocel(ocel_prep(df_filtered[s]))
OwnOcdfg(s) ==
    discover_ocdfg(pm_filter(OwnOcelData(s), filter_type[s], selected_filter_of(s),
                             Range(acts[s].final_activities)).ocel)
OwnCount(s) == vis_frequency(OwnOcdfg(s), setting[s].act_metric, setting[s].edge_metric)
OwnTime(s) == time_diagram(OwnOcdfg(s), setting[s].time_op)

\* C4: with runs of two sessions in flight, each run's OCEL, graph and
\* displayed diagrams come from its own filtered table: it never reads a
\* temp_ocel.csv, diag_count.png or diag_time.png another run wrote.
C4_RunsIsolated ==
    \A s \in Sessions :
        /\ Past(s, "read") => ocel_data[s] = OwnOcelData(s)
        /\ Past(s, "discover") => ocdfg[s] = OwnOcdfg(s)
        /\ shown[s].count # None => shown[s].count[1] = OwnCount(s)
        /\ shown[s].time # None => shown[s].time[1].diagram = OwnTime(s)
        /\ shown[s].download_count # None => shown[s].download_count[1] = OwnCount(s)
        /\ shown[s].download_time # None => shown[s].download_time[1] = OwnTime(s)

----------------------------------------------------------------------------
(* Claims checked under SpecTable *)

Rows(df) == Range(df)

\* C1: with a non-empty invoice allow-list L, every row of the filtered
\* table has no invoice identifier or one in L, and its PO identifier is
\* the PO of a row of the canonical table whose invoice identifier is in L.
C1_InvoiceAllowList ==
    \A s \in Sessions :
        (Past(s, "sidebar") /\ widgets[s].inv_list # {}) =>
            LET L == widgets[s].inv_list
                touched == {r.po_number : r \in {q \in Rows(df_raw[s][1]) :
                                                    q.uid_number # NaN /\ q.uid_number \in L}}
            IN  \A r \in Rows(df_filtered[s]) :
                    /\ r.uid_number = NaN \/ r.uid_number \in L
                    /\ r.po_number \in touched

\* C6: the rows of the filtered table that are equal in every column become
\* one event: df_ocel_prep has one row per distinct row, the OCEL read from
\* it has as many events, and the event ids are pairwise distinct.
C6_Deduplication ==
    \A s \in Sessions :
        Past(s, "build") =>
            LET prep == df_ocel_prep[s]
            IN  /\ Len(prep) = Cardinality(Rows(df_filtered[s]))
                /\ {prep[i].row : i \in DOMAIN prep} = Rows(df_filtered[s])
                /\ \A i, j \in DOMAIN prep : i # j => prep[i].eid # prep[j].eid
                /\ Cardinality(read_ocel(prep).events) = Cardinality(Rows(df_filtered[s]))

C6_Witness ==
    \E s \in Sessions :
        /\ Past(s, "build")
        /\ Len(df_filtered[s]) = 3
        /\ Len(df_ocel_prep[s]) = 2

----------------------------------------------------------------------------
(* Claims checked under SpecOcel *)

\* The three events of an object with exactly three, in time order.
Triples(o, ob) ==
    LET evs == EventsOf(o, ob)
    IN  {t \in evs \X evs \X evs :
            /\ Cardinality(evs) = 3
            /\ t[1].timestamp < t[2].timestamp
            /\ t[2].timestamp < t[3].timestamp}

EdgesAt(g, ty, a, b) == {e \in g.edges : e.otype = ty /\ e.src = a /\ e.tgt = b}
\* The unique-object count of edge a -> b of type ty (0 when there is none).
UoCount(g, ty, a, b) ==
    IF EdgesAt(g, ty, a, b) = {} THEN 0
    ELSE Cardinality((CHOOSE e \in EdgesAt(g, ty, a, b) : TRUE).unique_objects)
\* The log without object ob.
Without(o, ob) ==
    [events |-> o.events,
     relations |-> {r \in o.relations : <<r.otype, r.oid>> # ob}]
\* What object ob adds to the unique-object count of edge a -> b of its type.
Adds(o, ob, a, b) ==
    UoCount(discover_ocdfg(o), ob[1], a, b) - UoCount(discover_ocdfg(Without(o, ob)), ob[1], a, b)

Survive(s, t) == {t[1], t[2], t[3]} \subseteq ocel[s].events

\* C2 as stated: an object with exactly three events at t1 < t2 < t3 with
\* activities A, B, C, all surviving the filters, gives the edges A -> B and
\* B -> C of its type, adds exactly 1 to the unique-object count of each,
\* and never adds to an edge A -> C.
C2_AsStated ==
    \A s \in Sessions :
        JustPast(s, "discover") =>
            \A ob \in Objects(ocel_data[s]) : \A t \in Triples(ocel_data[s], ob) :
                Survive(s, t) =>
                    LET A == t[1].activity
                        B == t[2].activity
                        C == t[3].activity
                    IN  /\ EdgesAt(ocdfg[s], ob[1], A, B) # {}
                        /\ EdgesAt(ocdfg[s], ob[1], B, C) # {}
                        /\ Adds(ocel[s], ob, A, B) = 1
                        /\ Adds(ocel[s], ob, B, C) = 1
                        /\ Adds(ocel[s], ob, A, C) = 0

\* C2 amended: the same for an object that is itself in the filtered OCEL
\* (its type is among the selected ones), and the object adds to A -> C only
\* when A -> C is one of its two edges (A = B or B = C).
C2_PerObjectSequence ==
    \A s \in Sessions :
        JustPast(s, "discover") =>
            \A ob \in Objects(ocel[s]) : \A t \in Triples(ocel_data[s], ob) :
                Survive(s, t) =>
                    LET A == t[1].activity
                        B == t[2].activity
                        C == t[3].activity
                    IN  /\ EdgesAt(ocdfg[s], ob[1], A, B) # {}
                        /\ EdgesAt(ocdfg[s], ob[1], B, C) # {}
                        /\ Adds(ocel[s], ob, A, B) = 1
                        /\ Adds(ocel[s], ob, B, C) = 1
                        /\ (A # B /\ B # C) => Adds(ocel[s], ob, A, C) = 0

C2_Witness ==
    \E s \in Sessions :
        /\ JustPast(s, "discover")
        /\ \E ob \in Objects(ocel[s]) : \E t \in Triples(ocel_data[s], ob) :
            /\ Survive(s, t)
            /\ t[1].activity # t[2].activity
            /\ t[2].activity # t[3].activity
            /\ Cardinality(Objects(ocel[s])) > 1

\* C5: the final activities are the selected ones minus the excluded ones;
\* only events of a final activity are in the filtered OCEL; and with every
\* selected activity excluded the graph has no node and no edge.
C5_ActivityFilter ==
    \A s \in Sessions :
        /\ Past(s, "acts") =>
              Range(acts[s].final_activities) = Range(acts[s].selected_acts) \ acts[s].exclude_acts
        /\ Past(s, "filter") =>
              \A e \in ocel[s].events :
                  e.activity \in Range(acts[s].selected_acts) \ acts[s].exclude_acts
        /\ (Past(s, "discover") /\ Range(acts[s].selected_acts) \subseteq acts[s].exclude_acts) =>
              ocdfg[s].activities = {} /\ ocdfg[s].edges = {}

C5_Witness ==
    \E s \in Sessions :
        /\ pc[s] = "done"
        /\ acts[s].exclude_acts = Range(acts[s].selected_acts)
        /\ acts[s].exclude_acts # {}
        /\ \E e \in ocel_data[s].events : e.activity \in acts[s].exclude_acts
        /\ ocdfg[s].activities = {}

Gaps(e) == {c.gap : c \in e.event_couples}

\* C7: in the time-lapse diagram the page shows, every edge of the graph
\* with duration samples carries their mean when the time metric is 'mean'
\* and their total when it is 'sum' (20 and 60 for the samples 10, 20, 30),
\* and every edge drawn has samples.
C7_PerformanceAggregation ==
    \A s \in Sessions :
        shown[s].time # None =>
            LET view == shown[s].time[1].diagram
                op == setting[s].time_op
            IN  /\ shown[s].time[1].remark = op
                /\ \A e \in ocdfg[s].edges :
                     e.event_couples # {} =>
                        \E v \in view.edges :
                            /\ v.otype = e.otype /\ v.src = e.src /\ v.tgt = e.tgt
                            /\ op = "mean" =>
                                 v.label.num * Cardinality(e.event_couples)
                                    = SumGaps(e.event_couples) * v.label.den
                            /\ op = "sum" => v.label.num = SumGaps(e.event_couples) * v.label.den
                            /\ (Gaps(e) = {10, 20, 30} /\ Cardinality(e.event_couples) = 3) =>
                                 v.label.num = (IF op = "mean" THEN 20 ELSE 60) * v.label.den
                /\ \A v \in view.edges :
                     \E e \in ocdfg[s].edges :
                        /\ v.otype = e.otype /\ v.src = e.src /\ v.tgt = e.tgt
                        /\ e.event_couples # {}

C7_Witness ==
    \E s \in Sessions :
        /\ shown[s].time # None
        /\ setting[s].time_op = "sum"
        /\ \E e \in ocdfg[s].edges : Gaps(e) = {10, 20, 30} /\ Cardinality(e.event_couples) = 3

\* The selections the two orders are compared over.
TypeSets == SUBSET {"item", "po", "gr"}
ActivitySets == SUBSET {"PR Purchase Request", "PO From SAP", "GR Goods Receipt"}

CommutesObject(o, types, S) ==
    filter_ocel_event_attribute(filter_ocel_object_attribute(o, types), S)
        = filter_ocel_object_attribute(filter_ocel_event_attribute(o, S), types)

CommutesStart(o, ty, S) ==
    filter_ocel_event_attribute(filter_ocel_start_events_per_object_type(o, ty), S).events
        = filter_ocel_start_events_per_object_type(filter_ocel_event_attribute(o, S), ty).events

\* C10 as stated: over the OCEL a run read, for every activity set and
\* either mode with any selection, the mode's filter followed by the
\* activity filter leaves the events the other order leaves.
C10_AsStated ==
    \A s \in Sessions :
        JustPast(s, "read") =>
            \A S \in ActivitySets :
                /\ \A types \in TypeSets : CommutesObject(ocel_data[s], types, S)
                /\ \A ty \in ObjTypes : CommutesStart(ocel_data[s], ty, S)

\* C10 amended: for the object-type filter (mode A) the two orders leave
\* the same events, relations and graph: the OCEL pm_display filtered is the
\* one the activity filter followed by the object-type filter gives, and
\* the same holds for every type set and activity set.
C10_ObjectFilterCommutes ==
    \A s \in Sessions :
        /\ JustPast(s, "read") =>
              \A S \in ActivitySets : \A types \in TypeSets :
                  CommutesObject(ocel_data[s], types, S)
        /\ (JustPast(s, "discover") /\ filter_type[s] = object_filter) =>
              LET swapped == filter_ocel_object_attribute(
                                 filter_ocel_event_attribute(
                                     ocel_data[s], Range(acts[s].final_activities)),
                                 selected_objects[s][1])
              IN  ocel[s] = swapped /\ ocdfg[s] = discover_ocdfg(swapped)

C10_Witness ==
    \E s \in Sessions :
        /\ Past(s, "discover")
        /\ filter_type[s] = object_filter
        /\ ocel[s].events # {}
        /\ ocel[s].events # ocel_data[s].events
        /\ filter_ocel_object_attribute(ocel_data[s], selected_objects[s][1]) # ocel_data[s]
        /\ filter_ocel_event_attribute(ocel_data[s], Range(acts[s].final_activities)).events
              # ocel_data[s].events

====
